---- MODULE Spec2Model ----
(***************************************************************************)
(* metrixd: a host-metrics exporter.  main() builds five collectors (each  *)
(* registers its metrics in the process-wide registry), spawns one         *)
(* scheduler task that refreshes every collector under a mutex every five  *)
(* seconds, and serves the registry contents over HTTP.                    *)
(*                                                                         *)
(* Numbers.  Metric values are f64 in the program; the model keeps them as *)
(* integers and draws sampler readings from sets on which the program's    *)
(* float arithmetic is exact.  u64 arithmetic is kept modulo 2^U64Bits.    *)
(* Histogram bounds and observations are kept in integer units (cpu: per   *)
(* cent, disk: 1e-4 s, network: 1e-3 s).  A usage percentage is kept as   *)
(* its integer part, which matters only in the "sweep" runs.               *)
(*                                                                         *)
(* Environment.  A run fixes one `scenario`: the sampler readings or       *)
(* random magnitudes that vary during the run (everything else keeps       *)
(* returning one fixed reading), or "load", where every reading is fixed   *)
(* and several scrapes are in flight during a tick.  `overflow_checks` is  *)
(* the build profile: integer overflow panics (debug) or wraps (release).  *)
(*                                                                         *)
(* Requests.  Handler executions carry no identity of their own, so the    *)
(* executions under way are kept as a bag of their local states.           *)
(*                                                                         *)
(* Granularity.  Every metric write and every metric read is atomic in the *)
(* program.  gather() is taken one collector's metrics at a time.  The     *)
(* writes of one collect_metrics() call are one step, except in the        *)
(* "memory" runs, where a scrape watches the memory collector write its    *)
(* gauges one at a time.                                                   *)
(***************************************************************************)
EXTENDS Integers, Sequences, FiniteSets, Bags, TLC

VARIABLES
    scenario,         \* environment: which sampler's readings vary
    overflow_checks,  \* build profile: TRUE = overflow panics, FALSE = wraps
    mainPc,           \* position of main()
    mainIdx,          \* index of main()'s current loop
    collectors,       \* the Vec of collectors built so far (their kinds)
    registry,         \* default registry: metric name -> type, "none" if absent
    regCalls,         \* register_metrics() calls made on each collector
    value,            \* gauge / counter storage, by metric name
    hist,             \* histogram storage, by metric name
    poisoned,         \* std::sync::Mutex poison flag of each collector's sampler
    guard,            \* holder of the tokio Mutex around the Vec, 0 = free
    pc,               \* position of each scheduler task
    idx,              \* position of each task's iterator over the Vec
    calls,            \* kinds whose collect_metrics() the task's current pass invoked
    fault,            \* kind whose collect_metrics() panicked in the task, or "none"
    ticks,            \* passes started so far
    passes,           \* passes completed so far
    req,              \* bag of the handler executions under way: position,
                      \* what gather() has read so far, response
    sampler,          \* snapshot held by each collector's sampler (sysinfo)
    wr                \* metric writes made so far by the collect_metrics()
                      \* call under way, 0 between calls

vars == <<scenario, overflow_checks, mainPc, mainIdx, collectors, registry,
          regCalls, value, hist, poisoned, guard, pc, idx, calls, fault,
          ticks, passes, req, sampler, wr>>

startupVars == <<mainPc, mainIdx, collectors, registry, regCalls>>
metricVars == <<value, hist>>
taskVars == <<guard, pc, idx, calls, fault, ticks, passes, poisoned>>
envVars == <<scenario, overflow_checks>>
collectVars == <<sampler, wr>>

----------------------------------------------------------------------------
\* Bounds of the model.

\* largest integer representative drawn for one random magnitude
MaxDelta == 1
\* passes the scheduler loop may start in one run
MaxPasses == 2
\* exposition requests that may be in flight at once
MaxReqs == 2
\* width of the model's u64
U64Bits == 14
\* largest total of the memory readings swept for the usage percentage
MaxTotal == 3

U64Modulus == 2 ^ U64Bits
U64Max == U64Modulus - 1

----------------------------------------------------------------------------
\* The collector set and the metrics each collector creates.

\* main.rs: vec![Cpu, Memory, Disk, System, Network]
CollectorOrder == <<"cpu", "memory", "disk", "system", "network">>
Kinds == {CollectorOrder[i] : i \in 1..Len(CollectorOrder)}

G(n) == [name |-> n, type |-> "gauge"]
C(n) == [name |-> n, type |-> "counter"]
H(n) == [name |-> n, type |-> "histogram"]

CpuMetrics ==
    << G("cpu_usage_percent"), G("cpu_cores_total"), G("cpu_frequency_mhz"),
       C("cpu_time_user_seconds_total"), C("cpu_time_system_seconds_total"),
       C("cpu_time_idle_seconds_total"), H("cpu_load_distribution") >>

MemoryMetrics ==
    << G("memory_usage_percent"), G("memory_total_bytes"),
       G("memory_used_bytes"), G("memory_available_bytes") >>

DiskMetrics ==
    << G("disk_usage_percent"), G("disk_total_bytes"), G("disk_used_bytes"),
       G("disk_available_bytes"), G("disk_inodes_total"), G("disk_inodes_used"),
       C("disk_reads_total"), C("disk_writes_total"),
       C("disk_read_bytes_total"), C("disk_write_bytes_total"),
       H("disk_operation_duration_seconds") >>

SystemMetrics ==
    << G("load_average_1min"), G("load_average_5min"), G("load_average_15min"),
       G("uptime_seconds"), G("process_count") >>

NetworkMetrics ==
    << G("network_bytes_received"), G("network_bytes_transmitted"),
       G("network_packets_received"), G("network_packets_transmitted"),
       G("network_errors_received"), G("network_errors_transmitted"),
       C("network_bytes_received_total"), C("network_bytes_transmitted_total"),
       C("network_packets_received_total"),
       C("network_packets_transmitted_total"),
       H("network_latency_seconds") >>

MetricsOf(k) ==
    CASE k = "cpu" -> CpuMetrics
      [] k = "memory" -> MemoryMetrics
      [] k = "disk" -> DiskMetrics
      [] k = "system" -> SystemMetrics
      [] k = "network" -> NetworkMetrics

SeqRange(s) == {s[i] : i \in 1..Len(s)}
AllMetrics == UNION {SeqRange(MetricsOf(k)) : k \in Kinds}
Names == {m.name : m \in AllMetrics}
NamesOf(k) == {m.name : m \in SeqRange(MetricsOf(k))}
TypeOf(n) == (CHOOSE m \in AllMetrics : m.name = n).type
CounterNames == {m.name : m \in {x \in AllMetrics : x.type = "counter"}}
GaugeNames == {m.name : m \in {x \in AllMetrics : x.type = "gauge"}}
HistNames == {m.name : m \in {x \in AllMetrics : x.type = "histogram"}}
ScalarNames == CounterNames \cup GaugeNames

\* bucket upper bounds as given to register_histogram!
Buckets(n) ==
    CASE n = "cpu_load_distribution" ->
            <<0, 10, 25, 50, 75, 90, 95, 99, 100>>
      [] n = "disk_operation_duration_seconds" ->
            <<1, 5, 10, 50, 100, 250, 500, 1000, 2500, 5000, 10000>>
      [] n = "network_latency_seconds" ->
            <<1, 5, 10, 25, 50, 100, 250, 500, 1000, 2500, 5000, 10000>>

EmptyHist(n) ==
    [count |-> 0, sum |-> 0, buckets |-> [i \in 1..Len(Buckets(n)) |-> 0]]

----------------------------------------------------------------------------
\* Metric storage (the prometheus types the collectors hold).

\* Gauge::set on each name of f (a function from names to values)
Set(val, f) == [n \in DOMAIN val |-> IF n \in DOMAIN f THEN f[n] ELSE val[n]]
\* Counter::inc_by on each name of f
IncBy(val, f) ==
    [n \in DOMAIN val |-> IF n \in DOMAIN f THEN val[n] + f[n] ELSE val[n]]
\* an observe that counts v only in the first bucket that holds it
ObservePerBucket(hs, n, v) ==
    [hs EXCEPT ![n] =
        [count |-> @.count + 1,
         sum |-> @.sum + v,
         buckets |-> [i \in DOMAIN @.buckets |->
                        IF /\ Buckets(n)[i] >= v
                           /\ \A j \in 1..(i - 1) : Buckets(n)[j] < v
                        THEN @.buckets[i] + 1
                        ELSE @.buckets[i]]]]

\* Histogram::observe: every bucket whose bound is >= v, _sum and _count
Observe(hs, n, v) ==
    [hs EXCEPT ![n] =
        [count |-> @.count + 1,
         sum |-> @.sum + v,
         buckets |-> [i \in DOMAIN @.buckets |->
                        IF Buckets(n)[i] >= v THEN @.buckets[i] + 1
                        ELSE @.buckets[i]]]]

\* Registry::register of one metric: Err when the name is taken
register(reg, m) ==
    IF reg[m.name] # "none"
    THEN [ok |-> FALSE, registry |-> reg]
    ELSE [ok |-> TRUE, registry |-> [reg EXCEPT ![m.name] = m.type]]

----------------------------------------------------------------------------
\* Collector constructors: register_xxx!(...).unwrap() for each metric in turn.
\* The first Err panics; the metrics registered before it stay registered.

RECURSIVE RegisterFrom(_, _, _)
RegisterFrom(reg, ms, i) ==
    IF i > Len(ms) THEN [ok |-> TRUE, registry |-> reg]
    ELSE LET r == register(reg, ms[i])
         IN  IF r.ok THEN RegisterFrom(r.registry, ms, i + 1) ELSE r

\* fault variant of new: an Err of the registry is ignored and the name is
\* taken over by the new metric
new_replacing(reg, k) ==
    [ok |-> TRUE,
     registry |-> [n \in DOMAIN reg |->
                     IF n \in {m.name : m \in SeqRange(MetricsOf(k))}
                     THEN (CHOOSE m \in SeqRange(MetricsOf(k)) : m.name = n).type
                     ELSE reg[n]]]

new(reg, k) == RegisterFrom(reg, MetricsOf(k), 1)

\* Collector::register_metrics: every implementation returns Ok(())
register_metrics(k) == "Ok"

----------------------------------------------------------------------------
\* Sampler readings.

Clamp(x, lo, hi) == IF x < lo THEN lo ELSE IF x > hi THEN hi ELSE x

Scenarios ==
    {"cpu", "cpu_time", "memory", "sweep", "disk", "disk_io", "system",
     "network", "load"}

\* random::<f64>() * factor: integer representatives of [0, factor)
Random(active, factor) ==
    IF active THEN {d \in 0..MaxDelta : d < factor} ELSE {1}

BusyCpu == [usage |-> 50, cpus |-> <<1000, 2000>>]
CpuReadings(active) ==
    IF active THEN {[usage |-> 0, cpus |-> <<>>], BusyCpu,
                    [usage |-> 100, cpus |-> <<3000>>]}
    ELSE {BusyCpu}

UsualMemory == [total |-> 4096, used |-> 1024, available |-> 3072]
MemoryReadings(active) ==
    IF active THEN {[total |-> 0, used |-> 0, available |-> 0], UsualMemory,
                    [total |-> 4096, used |-> 4096, available |-> 0]}
    ELSE {UsualMemory}
\* every reading with used <= total <= MaxTotal, for the "sweep" runs
MemorySweep ==
    UNION {{[total |-> t, used |-> u, available |-> t - u] : u \in 0..t} :
              t \in 0..MaxTotal}

RootDisk == [mount |-> "/", total |-> 8192, available |-> 2048]
BootDisk == [mount |-> "/boot", total |-> 4096, available |-> 4096]
\* a filesystem reporting more available than total space
OddDisk == [mount |-> "/", total |-> 4096, available |-> 8192]
EmptyDisk == [mount |-> "/", total |-> 0, available |-> 0]
DiskReadings(active) ==
    IF active THEN {<<>>, <<RootDisk>>, <<BootDisk, RootDisk>>, <<BootDisk>>,
                    <<OddDisk>>, <<EmptyDisk>>}
    ELSE {<<RootDisk>>}

UsualSystem ==
    [one |-> 1, five |-> 2, fifteen |-> 3, uptime |-> 100, processes |-> 5]
SystemReadings(active) ==
    IF active THEN {UsualSystem,
                    [one |-> 0, five |-> 0, fifteen |-> 0, uptime |-> 105,
                     processes |-> 0]}
    ELSE {UsualSystem}

BusyIface ==
    [received |-> 3, transmitted |-> 2, packets_received |-> 2,
     packets_transmitted |-> 1, errors_on_received |-> 0,
     errors_on_transmitted |-> 1]
\* an interface whose received counter is at the top of the u64 range
HugeIface ==
    [received |-> U64Max, transmitted |-> 0, packets_received |-> 0,
     packets_transmitted |-> 0, errors_on_received |-> 0,
     errors_on_transmitted |-> 0]
NetworkReadings(active) ==
    IF active THEN {<<>>, <<BusyIface>>, <<BusyIface, BusyIface>>,
                    <<HugeIface, BusyIface>>}
    ELSE {<<BusyIface>>}

\* the snapshot a sampler takes when its collector is constructed
\* (System::new_all(), Disks/Networks::new_with_refreshed_list()); every
\* collect_metrics() refreshes the snapshot before reading it
NewSampler(k) ==
    CASE k = "cpu" -> BusyCpu
      [] k = "memory" -> UsualMemory
      [] k = "disk" -> <<RootDisk>>
      [] k = "system" -> UsualSystem
      [] k = "network" -> <<BusyIface>>

----------------------------------------------------------------------------
\* collect_metrics() of each collector, as a function of the sampler reading:
\* [panicked, value, hist].  A panic happens before the first metric write.

Done(val, hs) == [panicked |-> FALSE, value |-> val, hist |-> hs]
Panicked(val, hs) == [panicked |-> TRUE, value |-> val, hist |-> hs]

\* fault variant of usage_percent: the ratio is not scaled to a percentage
usage_ratio(used, total) ==
    IF total > 0 THEN used \div total ELSE 0

\* used / total * 100, and 0 for a total of 0
usage_percent(used, total) ==
    IF total > 0 THEN (used * 100) \div total ELSE 0

\* fault variant of collect_cpu: the cpu time counters are overwritten with the
\* tick's magnitude (set) instead of increased by it (inc_by)
collect_cpu_set(val, hs, rd, user, system, idle) ==
    LET frequency == IF Len(rd.cpus) > 0 THEN rd.cpus[1] ELSE 0
        gauges == Set(val, ("cpu_usage_percent" :> rd.usage)
                        @@ ("cpu_cores_total" :> Len(rd.cpus))
                        @@ ("cpu_frequency_mhz" :> frequency)
                        @@ ("cpu_time_user_seconds_total" :> user)
                        @@ ("cpu_time_system_seconds_total" :> system)
                        @@ ("cpu_time_idle_seconds_total" :> idle))
    IN  [panicked |-> FALSE, value |-> gauges,
         hist |-> Observe(hs, "cpu_load_distribution", rd.usage)]

\* fault variant of collect_cpu: the load is counted in one bucket only
collect_cpu_per_bucket(val, hs, rd, user, system, idle) ==
    LET frequency == IF Len(rd.cpus) > 0 THEN rd.cpus[1] ELSE 0
        gauges == Set(val, ("cpu_usage_percent" :> rd.usage)
                        @@ ("cpu_cores_total" :> Len(rd.cpus))
                        @@ ("cpu_frequency_mhz" :> frequency))
        counters == IncBy(gauges, ("cpu_time_user_seconds_total" :> user)
                        @@ ("cpu_time_system_seconds_total" :> system)
                        @@ ("cpu_time_idle_seconds_total" :> idle))
    IN  Done(counters, ObservePerBucket(hs, "cpu_load_distribution", rd.usage))

\* CpuCollector::collect_metrics
collect_cpu(val, hs, rd, user, system, idle) ==
    LET frequency == IF Len(rd.cpus) > 0 THEN rd.cpus[1] ELSE 0
        gauges == Set(val, ("cpu_usage_percent" :> rd.usage)
                        @@ ("cpu_cores_total" :> Len(rd.cpus))
                        @@ ("cpu_frequency_mhz" :> frequency))
        counters == IncBy(gauges, ("cpu_time_user_seconds_total" :> user)
                        @@ ("cpu_time_system_seconds_total" :> system)
                        @@ ("cpu_time_idle_seconds_total" :> idle))
    IN  Done(counters, Observe(hs, "cpu_load_distribution", rd.usage))

\* fault variant of collect_memory: the percentage gauge receives the bytes
\* in use
collect_memory_raw(val, hs, rd) ==
    Done(Set(val, ("memory_usage_percent" :> rd.used)
                @@ ("memory_total_bytes" :> rd.total)
                @@ ("memory_used_bytes" :> rd.used)
                @@ ("memory_available_bytes" :> rd.available)),
         hs)

\* MemoryCollector::collect_metrics
collect_memory(val, hs, rd) ==
    Done(Set(val, ("memory_usage_percent" :> usage_percent(rd.used, rd.total))
                @@ ("memory_total_bytes" :> rd.total)
                @@ ("memory_used_bytes" :> rd.used)
                @@ ("memory_available_bytes" :> rd.available)),
         hs)

\* disks.iter().find(mount_point == "/").or_else(first): index, 0 for None
FindDisk(disks) ==
    LET roots == {i \in 1..Len(disks) : disks[i].mount = "/"}
    IN  IF roots # {} THEN CHOOSE i \in roots : \A j \in roots : i <= j
        ELSE IF Len(disks) > 0 THEN 1 ELSE 0

\* fallback constants of DiskCollector::collect_metrics; the three byte
\* values are kept in units of 10^6 bytes
FallbackDisk ==
    ("disk_usage_percent" :> 45) @@ ("disk_total_bytes" :> 100000)
    @@ ("disk_used_bytes" :> 45000) @@ ("disk_available_bytes" :> 55000)
    @@ ("disk_inodes_total" :> 25600000) @@ ("disk_inodes_used" :> 11520000)

\* fault variant of collect_disk: without a disk the gauges are zeroed
collect_disk_zeroing(val, hs, disks, reads, writes, latency, checks) ==
    LET d == FindDisk(disks)
        total_space == disks[d].total
        available_space == disks[d].available
        used_space == (total_space - available_space) % U64Modulus
        percent == usage_percent(used_space, total_space)
        total_inodes == total_space \div 4096
        used_inodes == Clamp((total_inodes * percent) \div 100, 0, U64Max)
        gauges ==
            IF d # 0
            THEN Set(val, ("disk_usage_percent" :> percent)
                       @@ ("disk_total_bytes" :> total_space)
                       @@ ("disk_used_bytes" :> used_space)
                       @@ ("disk_available_bytes" :> available_space)
                       @@ ("disk_inodes_total" :> total_inodes)
                       @@ ("disk_inodes_used" :> used_inodes))
            ELSE Set(val, [n \in DOMAIN FallbackDisk |-> 0])
        counters ==
            IncBy(gauges, ("disk_reads_total" :> reads)
                       @@ ("disk_writes_total" :> writes)
                       @@ ("disk_read_bytes_total" :> reads * 4096)
                       @@ ("disk_write_bytes_total" :> writes * 4096))
    IN  IF d # 0 /\ available_space > total_space /\ checks
        THEN Panicked(val, hs)
        ELSE Done(counters,
                  Observe(hs, "disk_operation_duration_seconds", latency))

\* fault variant of collect_disk: the operation latency is observed only when
\* a disk was found
collect_disk_unobserved(val, hs, disks, reads, writes, latency, checks) ==
    LET d == FindDisk(disks)
        total_space == disks[d].total
        available_space == disks[d].available
        used_space == (total_space - available_space) % U64Modulus
        percent == usage_percent(used_space, total_space)
        total_inodes == total_space \div 4096
        used_inodes == Clamp((total_inodes * percent) \div 100, 0, U64Max)
        gauges ==
            IF d # 0
            THEN Set(val, ("disk_usage_percent" :> percent)
                       @@ ("disk_total_bytes" :> total_space)
                       @@ ("disk_used_bytes" :> used_space)
                       @@ ("disk_available_bytes" :> available_space)
                       @@ ("disk_inodes_total" :> total_inodes)
                       @@ ("disk_inodes_used" :> used_inodes))
            ELSE Set(val, FallbackDisk)
        counters ==
            IncBy(gauges, ("disk_reads_total" :> reads)
                       @@ ("disk_writes_total" :> writes)
                       @@ ("disk_read_bytes_total" :> reads * 4096)
                       @@ ("disk_write_bytes_total" :> writes * 4096))
    IN  IF d # 0 /\ available_space > total_space /\ checks
        THEN Panicked(val, hs)
        ELSE IF d = 0 THEN Done(counters, hs)
        ELSE Done(counters,
                  Observe(hs, "disk_operation_duration_seconds", latency))

\* DiskCollector::collect_metrics
collect_disk(val, hs, disks, reads, writes, latency, checks) ==
    LET d == FindDisk(disks)
        total_space == disks[d].total
        available_space == disks[d].available
        used_space == (total_space - available_space) % U64Modulus
        percent == usage_percent(used_space, total_space)
        total_inodes == total_space \div 4096
        used_inodes == Clamp((total_inodes * percent) \div 100, 0, U64Max)
        gauges ==
            IF d # 0
            THEN Set(val, ("disk_usage_percent" :> percent)
                       @@ ("disk_total_bytes" :> total_space)
                       @@ ("disk_used_bytes" :> used_space)
                       @@ ("disk_available_bytes" :> available_space)
                       @@ ("disk_inodes_total" :> total_inodes)
                       @@ ("disk_inodes_used" :> used_inodes))
            ELSE Set(val, FallbackDisk)
        counters ==
            IncBy(gauges, ("disk_reads_total" :> reads)
                       @@ ("disk_writes_total" :> writes)
                       @@ ("disk_read_bytes_total" :> reads * 4096)
                       @@ ("disk_write_bytes_total" :> writes * 4096))
    IN  IF d # 0 /\ available_space > total_space /\ checks
        THEN Panicked(val, hs)
        ELSE Done(counters,
                  Observe(hs, "disk_operation_duration_seconds", latency))

\* SystemCollector::collect_metrics
collect_system(val, hs, rd) ==
    Done(Set(val, ("load_average_1min" :> rd.one)
                @@ ("load_average_5min" :> rd.five)
                @@ ("load_average_15min" :> rd.fifteen)
                @@ ("uptime_seconds" :> rd.uptime)
                @@ ("process_count" :> rd.processes)),
         hs)

IfaceFields ==
    {"received", "transmitted", "packets_received", "packets_transmitted",
     "errors_on_received", "errors_on_transmitted"}

\* the six `total_x += data.x()` sums over the interfaces, without wrapping
RECURSIVE SumIfaces(_, _)
SumIfaces(ifaces, i) ==
    IF i > Len(ifaces) THEN [f \in IfaceFields |-> 0]
    ELSE LET rest == SumIfaces(ifaces, i + 1)
         IN  [f \in IfaceFields |-> ifaces[i][f] + rest[f]]

\* fault variant of collect_network: the counters are increased by the change
\* of the interface totals since the previous call
collect_network_delta(val, hs, ifaces, checks) ==
    LET exact == SumIfaces(ifaces, 1)
        overflow == \E f \in IfaceFields : exact[f] > U64Max
        total == [f \in IfaceFields |-> exact[f] % U64Modulus]
        Delta(new_total, g) == IF new_total > val[g] THEN new_total - val[g] ELSE 0
        gauges ==
            Set(val, ("network_bytes_received" :> total.received)
                  @@ ("network_bytes_transmitted" :> total.transmitted)
                  @@ ("network_packets_received" :> total.packets_received)
                  @@ ("network_packets_transmitted" :> total.packets_transmitted)
                  @@ ("network_errors_received" :> total.errors_on_received)
                  @@ ("network_errors_transmitted" :> total.errors_on_transmitted))
        counters ==
            IncBy(gauges,
                  ("network_bytes_received_total" :>
                         Delta(total.received, "network_bytes_received"))
                  @@ ("network_bytes_transmitted_total" :>
                         Delta(total.transmitted, "network_bytes_transmitted"))
                  @@ ("network_packets_received_total" :>
                         Delta(total.packets_received,
                               "network_packets_received"))
                  @@ ("network_packets_transmitted_total" :>
                         Delta(total.packets_transmitted,
                               "network_packets_transmitted")))
        simulated_latency == Clamp(total.received \div 1000, 1, 10000)
    IN  IF overflow /\ checks THEN Panicked(val, hs)
        ELSE Done(counters,
                  Observe(hs, "network_latency_seconds", simulated_latency))

\* NetworkCollector::collect_metrics
collect_network(val, hs, ifaces, checks) ==
    LET exact == SumIfaces(ifaces, 1)
        overflow == \E f \in IfaceFields : exact[f] > U64Max
        total == [f \in IfaceFields |-> exact[f] % U64Modulus]
        gauges ==
            Set(val, ("network_bytes_received" :> total.received)
                  @@ ("network_bytes_transmitted" :> total.transmitted)
                  @@ ("network_packets_received" :> total.packets_received)
                  @@ ("network_packets_transmitted" :> total.packets_transmitted)
                  @@ ("network_errors_received" :> total.errors_on_received)
                  @@ ("network_errors_transmitted" :> total.errors_on_transmitted))
        counters ==
            IncBy(gauges,
                  ("network_bytes_received_total" :> total.received)
                  @@ ("network_bytes_transmitted_total" :> total.transmitted)
                  @@ ("network_packets_received_total" :> total.packets_received)
                  @@ ("network_packets_transmitted_total" :>
                         total.packets_transmitted))
        simulated_latency == Clamp(total.received \div 1000, 1, 10000)
    IN  IF overflow /\ checks THEN Panicked(val, hs)
        ELSE Done(counters,
                  Observe(hs, "network_latency_seconds", simulated_latency))

----------------------------------------------------------------------------
\* Initial state: main() has not run; the default registry is empty.

Tasks == {"scheduler", "trigger"}
\* passes a run of the scenario covers: a load run is one tick under scrapes
PassBound == IF scenario = "load" THEN 1 ELSE MaxPasses
\* scrapes in flight at once in the scenario; the runs that vary the cpu,
\* disk, system or network readings carry no scrape traffic
Capacity ==
    CASE scenario = "load" -> MaxReqs
      [] scenario = "memory" -> 1
      [] OTHER -> 0

InitRest ==
    /\ scenario \in Scenarios
    /\ overflow_checks \in
          (IF scenario \in {"disk", "network"} THEN BOOLEAN ELSE {FALSE})
    /\ mainPc = "new"
    /\ mainIdx = 1
    /\ collectors = <<>>
    /\ regCalls = [k \in Kinds |-> 0]
    /\ hist = [n \in HistNames |-> EmptyHist(n)]
    /\ poisoned = [k \in Kinds |-> FALSE]
    /\ guard = "none"
    /\ pc = [t \in Tasks |-> "unspawned"]
    /\ idx = [t \in Tasks |-> 1]
    /\ calls = [t \in Tasks |-> <<>>]
    /\ fault = [t \in Tasks |-> "none"]
    /\ ticks = 0
    /\ passes = 0
    /\ req = EmptyBag
    /\ sampler = [k \in Kinds |-> "none"]
    /\ wr = 0

Init ==
    /\ registry = [n \in Names |-> "none"]
    /\ value = [n \in ScalarNames |-> 0]
    /\ InitRest

----------------------------------------------------------------------------
\* main(): build the collectors, register, spawn the scheduler, serve.

\* fault variant of CollectorNew: a constructor's failure is swallowed and
\* main() goes on with the next collector
CollectorNewLenient ==
    /\ mainPc = "new"
    /\ LET k == CollectorOrder[mainIdx]
           r == new(registry, k)
       IN  /\ registry' = r.registry
           /\ collectors' = Append(collectors, k)
           /\ sampler' = [sampler EXCEPT ![k] = NewSampler(k)]
           /\ mainIdx' = IF mainIdx = Len(CollectorOrder) THEN 1
                         ELSE mainIdx + 1
           /\ mainPc' = IF mainIdx = Len(CollectorOrder)
                        THEN "register" ELSE "new"
    /\ UNCHANGED <<regCalls, metricVars, taskVars, envVars, req, wr>>

\* Box::new(XCollector::new()) for the next element of the vec!
CollectorNew ==
    /\ mainPc = "new"
    /\ LET k == CollectorOrder[mainIdx]
           r == new(registry, k)
       IN  /\ registry' = r.registry
           /\ IF r.ok
              THEN /\ collectors' = Append(collectors, k)
                   /\ sampler' = [sampler EXCEPT ![k] = NewSampler(k)]
                   /\ mainIdx' = IF mainIdx = Len(CollectorOrder) THEN 1
                                 ELSE mainIdx + 1
                   /\ mainPc' = IF mainIdx = Len(CollectorOrder)
                                THEN "register" ELSE "new"
              ELSE /\ mainPc' = "aborted"
                   /\ UNCHANGED <<collectors, mainIdx, sampler>>
    /\ UNCHANGED <<regCalls, metricVars, taskVars, envVars, req, wr>>

\* fault variant of RegisterMetrics: the loop stops one collector short
RegisterMetricsShort ==
    /\ mainPc = "register"
    /\ LET k == collectors[mainIdx]
       IN  /\ regCalls' = [regCalls EXCEPT ![k] = @ + 1]
           /\ mainIdx' = IF mainIdx >= Len(collectors) - 1 THEN 1
                         ELSE mainIdx + 1
           /\ mainPc' = IF mainIdx >= Len(collectors) - 1
                        THEN "spawn" ELSE "register"
    /\ UNCHANGED <<collectors, registry, metricVars, taskVars, envVars, req, collectVars>>

\* for collector in &collectors { collector.register_metrics().expect(..) }
RegisterMetrics ==
    /\ mainPc = "register"
    /\ LET k == collectors[mainIdx]
       IN  /\ regCalls' = [regCalls EXCEPT ![k] = @ + 1]
           /\ IF register_metrics(k) = "Ok"
              THEN /\ mainIdx' = IF mainIdx = Len(collectors) THEN 1
                                 ELSE mainIdx + 1
                   /\ mainPc' = IF mainIdx = Len(collectors)
                                THEN "spawn" ELSE "register"
              ELSE /\ mainPc' = "aborted"
                   /\ UNCHANGED mainIdx
    /\ UNCHANGED <<collectors, registry, metricVars, taskVars, envVars, req, collectVars>>

\* Arc::new(Mutex::new(collectors)); task::spawn(async move { loop {..} })
Spawn ==
    /\ mainPc = "spawn"
    /\ mainPc' = "bind"
    /\ pc' = [pc EXCEPT !["scheduler"] = "lock"]
    /\ UNCHANGED <<mainIdx, collectors, registry, regCalls, metricVars, guard,
                   idx, calls, fault, ticks, passes, poisoned, envVars, req, collectVars>>

\* Server::bind(&addr).serve(make_svc)
Bind ==
    /\ mainPc = "bind"
    /\ mainPc' = "serving"
    /\ UNCHANGED <<mainIdx, collectors, registry, regCalls, metricVars,
                   taskVars, envVars, req, collectVars>>

----------------------------------------------------------------------------
\* The scheduler task: loop { { lock; for c in iter { collect } } sleep }.

\* no pass is under way
Quiet == \A t \in Tasks : pc[t] # "sampling"

\* bookkeeping of a handler execution: `quiet` records that all its steps so
\* far fell in the present interval between two passes, so the start of a
\* pass clears it
Disturbed(q) == [q EXCEPT !.quiet = FALSE]

\* fault variant of Lock: the pass starts without waiting for the guard
LockNoWait(t) ==
    /\ pc[t] = "lock"
    /\ ticks < PassBound
    /\ guard' = t
    /\ pc' = [pc EXCEPT ![t] = "sampling"]
    /\ idx' = [idx EXCEPT ![t] = 1]
    /\ calls' = [calls EXCEPT ![t] = <<>>]
    /\ ticks' = ticks + 1
    /\ req' = BagOfAll(Disturbed, req)
    /\ UNCHANGED <<startupVars, metricVars, fault, passes, poisoned, envVars,
                   collectVars>>

\* collectors.lock().await
Lock(t) ==
    /\ pc[t] = "lock"
    /\ guard = "none"
    /\ ticks < PassBound
    /\ guard' = t
    /\ pc' = [pc EXCEPT ![t] = "sampling"]
    /\ idx' = [idx EXCEPT ![t] = 1]
    /\ calls' = [calls EXCEPT ![t] = <<>>]
    /\ ticks' = ticks + 1
    /\ req' = BagOfAll(Disturbed, req)
    /\ UNCHANGED <<startupVars, metricVars, fault, passes, poisoned, envVars,
                   collectVars>>

\* the iterator is at a collector of kind k
At(t, k) ==
    /\ pc[t] = "sampling"
    /\ idx[t] <= Len(collectors)
    /\ collectors[idx[t]] = k

\* collect_metrics() returned: println!, next element
Returned(t, k, r) ==
    /\ value' = r.value
    /\ hist' = r.hist
    /\ idx' = [idx EXCEPT ![t] = @ + 1]
    /\ calls' = [calls EXCEPT ![t] = Append(@, k)]
    /\ UNCHANGED <<guard, pc, fault, ticks, passes, poisoned>>

\* collect_metrics() panicked: the task unwinds and ends; unwinding drops the
\* tokio guard (released) and the sampler's std guard (poisoned)
Unwound(t, k) ==
    /\ pc' = [pc EXCEPT ![t] = "panicked"]
    /\ guard' = "none"
    /\ poisoned' = [poisoned EXCEPT ![k] = TRUE]
    /\ fault' = [fault EXCEPT ![t] = k]
    /\ calls' = [calls EXCEPT ![t] = Append(@, k)]
    /\ UNCHANGED <<metricVars, idx, ticks, passes>>

\* the outcome of one collect_metrics() call; self.xxx.lock().unwrap()
\* panics on a poisoned sampler mutex
Outcome(t, k, r) ==
    IF r.panicked THEN Unwound(t, k) ELSE Returned(t, k, r)

\* refresh_xxx(): the sampler of kind k re-reads the platform
Refresh(k, rd) == sampler' = [sampler EXCEPT ![k] = rd]

CollectCpu(t) ==
    /\ At(t, "cpu")
    /\ IF poisoned["cpu"] THEN Unwound(t, "cpu") /\ UNCHANGED sampler
       ELSE \E rd \in CpuReadings(scenario = "cpu"),
               user \in Random(scenario = "cpu_time", 10),
               system \in Random(scenario = "cpu_time", 5),
               idle \in Random(scenario = "cpu_time", 100) :
                /\ Refresh("cpu", rd)
                /\ Outcome(t, "cpu",
                           collect_cpu(value, hist, rd, user, system, idle))
    /\ UNCHANGED <<startupVars, envVars, req, wr>>

\* the runs in which a scrape watches the memory readings vary take the
\* writes of MemoryCollector::collect_metrics one at a time; elsewhere the
\* writes of one collect_metrics() call are one step
Stepwise(k) == k = "memory" /\ scenario = "memory"

\* val after the first n writes of a collect_metrics() call of kind k whose
\* writes lead to end (the metrics are written in the order they were created)
Written(val, end, k, n) ==
    [m \in DOMAIN val |->
        IF \E i \in 1..n : MetricsOf(k)[i].name = m THEN end[m] ELSE val[m]]

CollectMemory(t) ==
    /\ At(t, "memory")
    /\ IF poisoned["memory"]
       THEN Unwound(t, "memory") /\ UNCHANGED <<sampler, wr>>
       ELSE \E rd \in (IF wr > 0 THEN {sampler["memory"]}
                       ELSE IF scenario = "sweep" THEN MemorySweep
                       ELSE MemoryReadings(scenario = "memory")) :
                LET r == collect_memory(value, hist, rd)
                    n == IF Stepwise("memory") THEN wr + 1
                         ELSE Len(MemoryMetrics)
                IN  /\ Refresh("memory", rd)
                    /\ IF n = Len(MemoryMetrics)
                       THEN Outcome(t, "memory", r) /\ wr' = 0
                       ELSE /\ value' = Written(value, r.value, "memory", n)
                            /\ wr' = n
                            /\ UNCHANGED <<hist, guard, pc, idx, calls, fault,
                                           ticks, passes, poisoned>>
    /\ UNCHANGED <<startupVars, envVars, req>>

CollectDisk(t) ==
    /\ At(t, "disk")
    /\ IF poisoned["disk"] THEN Unwound(t, "disk") /\ UNCHANGED sampler
       ELSE \E disks \in DiskReadings(scenario = "disk"),
               reads \in Random(scenario = "disk_io", 100),
               writes \in Random(scenario = "disk_io", 50),
               latency \in Random(scenario = "disk_io", 1000) :
                /\ Refresh("disk", disks)
                /\ Outcome(t, "disk",
                           collect_disk(value, hist, disks, reads, writes,
                                        latency, overflow_checks))
    /\ UNCHANGED <<startupVars, envVars, req, wr>>

CollectSystem(t) ==
    /\ At(t, "system")
    /\ IF poisoned["system"] THEN Unwound(t, "system") /\ UNCHANGED sampler
       ELSE \E rd \in SystemReadings(scenario = "system") :
                /\ Refresh("system", rd)
                /\ Outcome(t, "system", collect_system(value, hist, rd))
    /\ UNCHANGED <<startupVars, envVars, req, wr>>

CollectNetwork(t) ==
    /\ At(t, "network")
    /\ IF poisoned["network"] THEN Unwound(t, "network") /\ UNCHANGED sampler
       ELSE \E ifaces \in NetworkReadings(scenario = "network") :
                /\ Refresh("network", ifaces)
                /\ Outcome(t, "network",
                           collect_network(value, hist, ifaces, overflow_checks))
    /\ UNCHANGED <<startupVars, envVars, req, wr>>

\* fault variant of Release: the guard is kept over the sleep
ReleaseKeepingGuard(t) ==
    /\ pc[t] = "sampling"
    /\ idx[t] > Len(collectors)
    /\ guard' = guard
    /\ pc' = [pc EXCEPT ![t] = "sleeping"]
    /\ passes' = passes + 1
    /\ UNCHANGED <<startupVars, metricVars, idx, calls, fault, ticks, poisoned,
                   envVars, req, collectVars>>

\* end of the block: the guard is dropped, then tokio::time::sleep(5 s)
Release(t) ==
    /\ pc[t] = "sampling"
    /\ idx[t] > Len(collectors)
    /\ guard' = "none"
    /\ pc' = [pc EXCEPT ![t] = "sleeping"]
    /\ passes' = passes + 1
    /\ UNCHANGED <<startupVars, metricVars, idx, calls, fault, ticks, poisoned,
                   envVars, req, collectVars>>

\* the sleep elapsed: next iteration of the loop
Wake(t) ==
    /\ pc[t] = "sleeping"
    /\ pc' = [pc EXCEPT ![t] = "lock"]
    /\ UNCHANGED <<startupVars, metricVars, guard, idx, calls, fault, ticks,
                   passes, poisoned, envVars, req, collectVars>>

----------------------------------------------------------------------------
\* metrics_handler: one execution per inbound request.

InFlight == BagToSet(req)

\* fault variant of ReadScalars: a read that is not atomic and loses the low
\* bit of the stored value
ReadScalarsTorn(k) ==
    [n \in {m \in NamesOf(k) \cap ScalarNames : registry[m] # "none"} |->
        value[n] - (value[n] % 2)]

\* what gather() reads of the metrics of kind k: the registered ones, each
\* metric's storage read once
ReadScalars(k) ==
    [n \in {m \in NamesOf(k) \cap ScalarNames : registry[m] # "none"} |->
        value[n]]
\* fault variant of ReadHists: the histograms are served as they were created
ReadHistsStale(k) ==
    [n \in {m \in NamesOf(k) \cap HistNames : registry[m] # "none"} |->
        EmptyHist(n)]

\* what gather() reads of the histograms of kind k
ReadHists(k) ==
    [n \in {m \in NamesOf(k) \cap HistNames : registry[m] # "none"} |-> hist[n]]

Methods == {"GET", "POST"}
Paths == {"/metrics", "/"}

\* fault variant of Entered: only GET /metrics is served
EnteredRouted(method, path) ==
    [pc |-> IF method = "GET" /\ path = "/metrics" THEN "gather" ELSE "done",
     next |-> 1, body |-> <<>>, hbody |-> <<>>,
     status |-> IF method = "GET" /\ path = "/metrics" THEN 0 ELSE 404,
     content_type |-> "", text |-> "", quiet |-> Quiet]

\* a handler execution that has read nothing yet; the handler never looks at
\* its request (_req)
Entered(method, path) ==
    [pc |-> "gather", next |-> 1, body |-> <<>>, hbody |-> <<>>,
     status |-> 0, content_type |-> "", text |-> "", quiet |-> Quiet]

\* the execution q after gather() has read its next group of metrics
Read(q) ==
    LET k == CollectorOrder[q.next]
    IN  [q EXCEPT !.body = ReadScalars(k) @@ @,
                  !.hbody = ReadHists(k) @@ @,
                  !.next = @ + 1]

EncodeResults == {"Ok", "Err"}

\* fault variant of Encode: a failed serialization is answered as a success
\* with whatever the buffer holds
EncodeSilent(q, e) ==
    IF e = "Err"
    THEN [q EXCEPT !.pc = "done", !.status = 200,
                   !.content_type = "text/plain; version=0.0.4",
                   !.body = <<>>, !.hbody = <<>>]
    ELSE [q EXCEPT !.pc = "done", !.status = 200,
                   !.content_type = "text/plain; version=0.0.4"]

\* encoder.encode(..) and the response: 500 with a plain body on Err
Encode(q, e) ==
    IF e = "Err"
    THEN [q EXCEPT !.pc = "done", !.status = 500, !.content_type = "",
                   !.body = <<>>, !.hbody = <<>>,
                   !.text = "Internal Server Error"]
    ELSE [q EXCEPT !.pc = "done", !.status = 200,
                   !.content_type = "text/plain; version=0.0.4"]

\* the bag of executions with q advanced to p
Advance(q, p) == (req (-) SetToBag({q})) (+) SetToBag({p})

\* a request is accepted: the handler starts, and its first statement,
\* gather(), reads the first group of metrics
Arrive ==
    /\ mainPc = "serving"
    /\ BagCardinality(req) < Capacity
    /\ \E method \in Methods, path \in Paths :
          req' = req (+) SetToBag({Read(Entered(method, path))})
    /\ UNCHANGED <<startupVars, metricVars, taskVars, envVars, collectVars>>

\* fault variant of Gather: the handler reads the metrics under the
\* collector-set guard
GatherUnderGuard(q) ==
    /\ q.pc = "gather"
    /\ guard = "none"
    /\ IF q.next < Len(CollectorOrder)
       THEN req' = Advance(q, Read(q))
       ELSE \E e \in EncodeResults : req' = Advance(q, Encode(Read(q), e))
    /\ UNCHANGED <<startupVars, metricVars, taskVars, envVars, collectVars>>

\* gather() reads the next group of metrics from the registry; after the last
\* group the handler encodes what it has read and builds the response
Gather(q) ==
    /\ q.pc = "gather"
    /\ IF q.next < Len(CollectorOrder)
       THEN req' = Advance(q, Read(q))
       ELSE \E e \in EncodeResults : req' = Advance(q, Encode(Read(q), e))
    /\ UNCHANGED <<startupVars, metricVars, taskVars, envVars, collectVars>>

\* fault variant of Close: a finished scrape unregisters a metric
CloseUnregistering(q) ==
    /\ q.pc = "done"
    /\ req' = req (-) SetToBag({q})
    /\ registry' = [registry EXCEPT !["memory_usage_percent"] = "none"]
    /\ UNCHANGED <<mainPc, mainIdx, collectors, regCalls, metricVars, taskVars,
                   envVars, collectVars>>

\* the response has been sent; the execution is over
Close(q) ==
    /\ q.pc = "done"
    /\ req' = req (-) SetToBag({q})
    /\ UNCHANGED <<startupVars, metricVars, taskVars, envVars, collectVars>>

----------------------------------------------------------------------------
\* Specifications.

MainNext == CollectorNew \/ RegisterMetrics \/ Spawn \/ Bind

TaskNext(t) ==
    \/ Lock(t)
    \/ CollectCpu(t)
    \/ CollectMemory(t)
    \/ CollectDisk(t)
    \/ CollectSystem(t)
    \/ CollectNetwork(t)
    \/ Release(t)
    \/ Wake(t)

HandlerNext == Arrive \/ \E q \in InFlight : Gather(q) \/ Close(q)

Next ==
    \/ MainNext
    \/ \E t \in Tasks : TaskNext(t)
    \/ HandlerNext

\* the program as built: one scheduler task
Spec == Init /\ [][Next]_vars

\* A second execution context running the scheduler's loop over the same
\* Arc<Mutex<Vec>> (a further scheduler or a manual trigger); the runs with
\* scrape traffic keep to the one scheduler.
SpawnTrigger ==
    /\ mainPc = "bind"
    /\ Capacity = 0
    /\ pc["trigger"] = "unspawned"
    /\ pc' = [pc EXCEPT !["trigger"] = "lock"]
    /\ UNCHANGED <<startupVars, metricVars, guard, idx, calls, fault, ticks,
                   passes, poisoned, envVars, req, collectVars>>

TriggerNext == Next \/ SpawnTrigger

\* the program with a second context contending for the collector set
TriggerSpec == Init /\ [][TriggerNext]_vars

\* Metrics that may already be in the default registry when main() starts,
\* each holding PreValue.
PreRegistered ==
    {G("cpu_usage_percent"), G("memory_used_bytes"), G("disk_reads_total"),
     C("network_errors_received")}
PreValue == 7

StartupInit ==
    /\ \E pre \in {{}} \cup {{m} : m \in PreRegistered} :
          /\ registry = [n \in Names |->
                           IF \E m \in pre : m.name = n
                           THEN (CHOOSE m \in pre : m.name = n).type
                           ELSE "none"]
          /\ value = [n \in ScalarNames |->
                        IF \E m \in pre : m.name = n THEN PreValue ELSE 0]
    /\ InitRest

\* the program started on a registry that may already hold one of its names
StartupSpec == StartupInit /\ [][Next]_vars

----------------------------------------------------------------------------
\* Claims.

Registered(k) == \A m \in SeqRange(MetricsOf(k)) : registry[m.name] = m.type
Running(t) == pc[t] \in {"lock", "sampling", "sleeping"}

\* C1: a counter never decreases: every step of every execution leaves each
\* counter at or above its previous value.
C1_CountersMonotonic ==
    [][\A n \in CounterNames : value'[n] >= value[n]]_vars

\* two passes completed and counters of all three collectors have grown
C1_Witness ==
    /\ passes = 2
    /\ value["cpu_time_idle_seconds_total"] = 2
    /\ value["disk_read_bytes_total"] > 4096
    /\ value["network_bytes_received_total"] > value["network_bytes_received"]
    /\ value["network_bytes_received"] > 0

\* C2: a collect_metrics() that fails does not abort the loop: the task that
\* met the failure is still running its loop.
C2_FailureDoesNotAbortLoop ==
    \A t \in Tasks : fault[t] # "none" => Running(t)

\* C3: passes never interleave: at most one context is inside a pass, and a
\* context inside a pass holds the guard of the collector set.
C3_PassesNeverInterleave ==
    /\ Cardinality({t \in Tasks : pc[t] = "sampling"}) <= 1
    /\ \A t \in Tasks : pc[t] = "sampling" => guard = t

\* one context is in the middle of a pass while the other waits for the guard
C3_Witness ==
    \E t, u \in Tasks :
        /\ pc[t] = "sampling" /\ idx[t] = 3
        /\ pc[u] = "lock" /\ ticks < PassBound

\* C4: the exposition path never waits on the collector-set guard: whoever
\* holds the guard, a request can be accepted and a handler execution under
\* way can take its next step.
C4_ScrapeNeverWaits ==
    /\ (mainPc = "serving" /\ BagCardinality(req) < Capacity) => ENABLED Arrive
    /\ \A q \in InFlight : ENABLED (Gather(q) \/ Close(q))

\* a request that arrived during a pass, after that pass refreshed the cpu
\* metrics, has its response while the same pass still holds the guard
C4_Witness ==
    \E q \in InFlight :
        /\ q.pc = "done" /\ q.status = 200
        /\ ticks > passes
        /\ q.hbody["cpu_load_distribution"].count = ticks
        /\ \E t \in Tasks : guard = t /\ pc[t] = "sampling" /\ idx[t] = 3

C6_SamplingSleepingAlternate ==
    [][\A t \in Tasks :
          /\ (pc[t] = "sampling" /\ pc'[t] # "sampling") => pc'[t] = "sleeping"
          /\ (pc[t] = "sleeping" /\ pc'[t] # "sleeping") => pc'[t] = "lock"]_vars

\* C7: every pass invokes collect_metrics() on every member exactly once in
\* construction order: a pass under way has invoked a prefix of the set, and a
\* pass that is over has invoked the whole set.
C7_EveryPassCoversTheSet ==
    \A t \in Tasks :
        /\ pc[t] = "sampling" => calls[t] = SubSeq(CollectorOrder, 1, idx[t] - 1)
        /\ (pc[t] # "sampling" /\ calls[t] # <<>>) => calls[t] = CollectorOrder

\* the next constructor meets a name that is already registered
Duplicate ==
    /\ mainPc = "new"
    /\ \E m \in SeqRange(MetricsOf(CollectorOrder[mainIdx])) :
          registry[m.name] # "none"

\* C8: creating a metric whose name is taken fails, and every metric already
\* registered keeps its type and its value.
C8_DuplicateFailsOriginalKept ==
    [][Duplicate =>
          /\ mainPc' = "aborted"
          /\ collectors' = collectors
          /\ \A n \in Names : registry[n] # "none" => registry'[n] = registry[n]
          /\ value' = value
          /\ hist' = hist]_vars

\* a constructor failed on a name registered with another type, which still
\* has that type and its value
C8_Witness ==
    /\ mainPc = "aborted"
    /\ registry["disk_reads_total"] = "gauge"
    /\ value["disk_reads_total"] = PreValue
    /\ registry["disk_usage_percent"] = "gauge"

\* C9: a registration error is fatal at startup: after it nothing is spawned,
\* bound or sampled, and whenever a task or the server exists every collector
\* is built with all its metrics registered.
C9_RegistrationErrorFatal ==
    /\ mainPc = "aborted" =>
          /\ \A t \in Tasks : pc[t] = "unspawned"
          /\ req = EmptyBag
          /\ ticks = 0
          /\ ~ ENABLED Next
    /\ ((\E t \in Tasks : pc[t] # "unspawned") \/ mainPc \in {"bind", "serving"}) =>
          /\ collectors = CollectorOrder
          /\ \A k \in Kinds : Registered(k)

\* the process aborted with two collectors built and the third partly
\* registered
C9_Witness ==
    /\ mainPc = "aborted"
    /\ Len(collectors) = 2
    /\ registry["disk_used_bytes"] = "gauge"
    /\ registry["disk_writes_total"] = "none"

\* C10: register_metrics() is called exactly once on every collector, and
\* all calls and all metric creation precede the first collect_metrics().
C10_RegisteredOnceBeforeCollect ==
    /\ \A k \in Kinds : regCalls[k] <= 1
    /\ (ticks > 0 \/ \E t \in Tasks : pc[t] # "unspawned") =>
          \A k \in Kinds : regCalls[k] = 1 /\ Registered(k)

\* the first collect_metrics() has run
C10_Witness ==
    /\ calls["scheduler"] = <<"cpu">>
    /\ passes = 0

\* the collect_metrics() call of kind k returns in this step
ReturnsFrom(k) == \E t \in Tasks : At(t, k) /\ idx'[t] = idx[t] + 1

\* p is 100 * used / total (its integer part) when 0 <= used <= total, and
\* 0 when total is 0
IsPercentOf(p, used, total) ==
    /\ total = 0 => p = 0
    /\ (total > 0 /\ 0 <= used /\ used <= total) =>
          /\ p * total <= 100 * used
          /\ 100 * used < (p + 1) * total

\* C11: the usage percentage written by the memory and the disk collector is
\* 0 when the sampler's total is 0, and 100 * used / total whenever
\* 0 <= used <= total and total > 0.
C11_UsagePercent ==
    [][/\ ReturnsFrom("memory") =>
             IsPercentOf(value'["memory_usage_percent"],
                         sampler'["memory"].used, sampler'["memory"].total)
       /\ (ReturnsFrom("disk") /\ FindDisk(sampler'["disk"]) # 0) =>
             LET d == sampler'["disk"][FindDisk(sampler'["disk"])]
             IN  IsPercentOf(value'["disk_usage_percent"],
                             d.total - d.available, d.total)]_vars

\* a pass has left the percentage of a disk of total 0 at 0 and the percentage
\* of a memory of total 4096 with 1024 in use at 25
C11_Witness ==
    /\ passes = 1
    /\ sampler["disk"] = <<EmptyDisk>>
    /\ value["disk_usage_percent"] = 0
    /\ sampler["memory"] = UsualMemory
    /\ value["memory_usage_percent"] = 25

\* the response q carries the two metrics with values in their ranges
CarriesUsage(q) ==
    /\ "memory_usage_percent" \in DOMAIN q.body
    /\ q.body["memory_usage_percent"] \in 0..100
    /\ "disk_reads_total" \in DOMAIN q.body
    /\ q.body["disk_reads_total"] >= 0

\* C12 as stated: once the first pass has completed, every response carries
\* memory_usage_percent within [0, 100] and disk_reads_total >= 0.
C12_EveryResponseCarriesUsage ==
    passes >= 1 => \A q \in InFlight : q.pc = "done" => CarriesUsage(q)

\* C12, amended: once the first pass has completed, the registry holds
\* memory_usage_percent within [0, 100] and disk_reads_total >= 0, and every
\* successful response carries them within these ranges; a response whose
\* serialization failed carries no metric.
C12_SuccessfulResponseCarriesUsage ==
    passes >= 1 =>
        /\ value["memory_usage_percent"] \in 0..100
        /\ value["disk_reads_total"] >= 0
        /\ \A q \in InFlight :
              /\ (q.pc = "done" /\ q.status = 200) => CarriesUsage(q)
              /\ (q.pc = "done" /\ q.status # 200) => DOMAIN q.body = {}

\* a request made and answered while the scheduler sleeps after its first
\* pass, which found the memory fully used
C12_Witness ==
    /\ passes = 1
    /\ Quiet
    /\ \E q \in InFlight :
          /\ q.pc = "done" /\ q.status = 200 /\ q.quiet
          /\ q.body["memory_usage_percent"] = 100
          /\ q.body["disk_reads_total"] = 1

\* a step of a handler execution (the start of a pass is the only other step
\* that touches the bookkeeping of the executions)
HandlerStep == req' # req /\ ticks' = ticks

\* q is the response of a failed serialization
IsFailure(q) ==
    /\ q.status = 500
    /\ q.text = "Internal Server Error"
    /\ q.content_type = ""
    /\ DOMAIN q.body = {} /\ DOMAIN q.hbody = {}

\* q is a success response in the text format
IsSuccess(q) ==
    /\ q.status = 200
    /\ q.content_type = "text/plain; version=0.0.4"
    /\ DOMAIN q.body = ScalarNames /\ DOMAIN q.hbody = HistNames

\* C13: a request whose serialization fails is answered 500 with a plain
\* text, any other request is answered with the text-format content type;
\* a handler step, failing or not, changes no metric value, changes nothing
\* the scheduler's steps depend on (guard, positions, collector set, samplers)
\* and changes no other execution.
C13_SerializationFailureContained ==
    [][/\ \A p \in BagToSet(req') :
             p.pc = "done" => IsFailure(p) \/ IsSuccess(p)
       /\ HandlerStep =>
             /\ value' = value /\ hist' = hist
             /\ UNCHANGED <<taskVars, collectors, collectVars>>
             /\ BagCardinality(req (-) req') <= 1
             /\ BagCardinality(req' (-) req) <= 1]_vars

\* during a pass one request has been answered 500 and another, which
\* arrived in the same pass, 200
C13_Witness ==
    /\ \E t \in Tasks : guard = t /\ pc[t] = "sampling" /\ idx[t] = 3
    /\ \E p, q \in InFlight :
          /\ p.pc = "done" /\ IsFailure(p)
          /\ q.pc = "done" /\ IsSuccess(q)
          /\ q.hbody["cpu_load_distribution"].count = ticks

\* the sampler snapshot of kind k has nothing to report: no disk, no cpu, no
\* interface
NoData(k, snapshot) ==
    CASE k = "disk" -> FindDisk(snapshot) = 0
      [] k = "cpu" -> Len(snapshot.cpus) = 0
      [] k = "network" -> Len(snapshot) = 0
      [] OTHER -> FALSE

\* the constant a gauge receives when its sampler has nothing to report: the
\* disk fallback values, zero for the cpu and network gauges
FallbackOf(n) == IF n \in DOMAIN FallbackDisk THEN FallbackDisk[n] ELSE 0

\* C14: when the sampler of a collector has no data, every gauge of that
\* collector ends the call at its previous value or at its fallback constant,
\* no metric of another collector changes, and the loop goes on to the next
\* collector.
C14_NoDataFallsBack ==
    [][\A k \in {"cpu", "disk", "network"} :
          \A t \in Tasks :
              (/\ At(t, k)
               /\ calls'[t] = Append(calls[t], k)
               /\ NoData(k, sampler'[k])) =>
                  /\ \A n \in NamesOf(k) \cap GaugeNames :
                        value'[n] = FallbackOf(n) \/ value'[n] = value[n]
                  /\ \A n \in ScalarNames \ NamesOf(k) : value'[n] = value[n]
                  /\ \A n \in HistNames \ NamesOf(k) : hist'[n] = hist[n]
                  /\ pc'[t] = "sampling"
                  /\ idx'[t] = idx[t] + 1
                  /\ fault'[t] = "none"]_vars

\* the second pass found no disk after the first had found one: the disk
\* gauges hold the fallback constants and the pass has gone on to the next
\* collector
C14_Witness ==
    /\ ticks = 2
    /\ pc["scheduler"] = "sampling" /\ idx["scheduler"] = 4
    /\ sampler["disk"] = <<>>
    /\ \A n \in DOMAIN FallbackDisk : value[n] = FallbackDisk[n]
    /\ value["disk_reads_total"] = 2
    /\ value["memory_total_bytes"] = 4096

\* C15: the scheduler is the sole writer: a handler step changes no metric
\* value, nor the registry, the collector set or a sampler; a metric value
\* changes only in a step of the task that holds the guard inside a pass; and
\* the handler starts the same way whatever the method and path of its request.
C15_SchedulerSoleWriter ==
    [][/\ HandlerStep =>
             /\ value' = value /\ hist' = hist
             /\ registry' = registry
             /\ collectors' = collectors
             /\ sampler' = sampler /\ poisoned' = poisoned
       /\ (value' # value \/ hist' # hist) =>
             /\ req' = req
             /\ \E t \in Tasks : pc[t] = "sampling" /\ guard = t
       /\ \A m1, m2 \in Methods, p1, p2 \in Paths :
             Entered(m1, p1) = Entered(m2, p2)]_vars

\* a request has been accepted and answered after a pass, and the metrics are
\* as the pass left them
C15_Witness ==
    /\ passes = 1
    /\ Quiet
    /\ value["cpu_time_idle_seconds_total"] = 1
    /\ hist["network_latency_seconds"].count = 1
    /\ sampler["memory"] = UsualMemory
    /\ \E q \in InFlight : q.pc = "done" /\ q.quiet /\ q.status = 200

\* the cumulative bucket counts of the histogram value h do not decrease
\* along the bounds and do not exceed its count
Cumulative(h) ==
    /\ \A i \in DOMAIN h.buckets :
          i > 1 => h.buckets[i - 1] <= h.buckets[i]
    /\ \A i \in DOMAIN h.buckets : h.buckets[i] <= h.count

\* C16: whenever a histogram changes, it has taken one observation v: _count
\* grows by 1, _sum by v, and exactly the buckets whose bound is >= v grow by
\* 1; the histogram then is cumulative and keeps one bucket per bound it was
\* created with; and every copy of a histogram read by a request is
\* cumulative.
C16_HistogramObservation ==
    [][/\ \A n \in HistNames :
             hist'[n] # hist[n] =>
                 LET v == hist'[n].sum - hist[n].sum
                 IN  /\ hist'[n].count = hist[n].count + 1
                     /\ \A i \in DOMAIN Buckets(n) :
                           hist'[n].buckets[i] =
                               hist[n].buckets[i]
                                   + (IF Buckets(n)[i] >= v THEN 1 ELSE 0)
                     /\ Cumulative(hist'[n])
                     /\ DOMAIN hist'[n].buckets = DOMAIN Buckets(n)
       /\ \A p \in BagToSet(req') :
             CopiesIn(p, req) = 0 =>
                 \A n \in DOMAIN p.hbody : Cumulative(p.hbody[n])]_vars

\* the cpu histogram after observing a load of 50 and a load of 100
C16_Witness ==
    /\ passes = 2
    /\ hist["cpu_load_distribution"] =
          [count |-> 2, sum |-> 150, buckets |-> <<0, 0, 0, 1, 1, 1, 1, 1, 2>>]

\* C17: collect_metrics() completes normally for every sampler reading: no
\* call ever panics, so no task is ever unwound and no sampler mutex poisoned.
C17_CollectNeverPanics ==
    /\ \A t \in Tasks : pc[t] # "panicked"
    /\ \A k \in Kinds : ~ poisoned[k]

\* C18: the guard is taken on entering Sampling and dropped before Sleeping:
\* whenever the scheduler sleeps the guard is free, only a task inside a pass
\* holds it, a pass starts by taking the free guard and ends by freeing it.
C18_GuardFreeWhileSleeping ==
    [][/\ pc'["scheduler"] = "sleeping" => guard' = "none"
       /\ \A t \in Tasks : guard' = t => pc'[t] = "sampling"
       /\ ticks' # ticks => guard = "none" /\ guard' # "none"
       /\ passes' # passes => guard # "none" /\ guard' = "none"]_vars

\* the scheduler sleeps after its second pass and the guard is free
C18_Witness ==
    /\ pc["scheduler"] = "sleeping"
    /\ passes = 2 /\ ticks = 2
    /\ guard = "none"

\* startup is over: main() has built and registered the five collectors
Started == mainPc \in {"spawn", "bind", "serving"}

\* C19: after startup the collector set and the registry are frozen: the set
\* is the five collectors in construction order, the registry holds exactly
\* their metrics with their types, and no step, of a collect_metrics(), of a
\* scrape or of anything else, changes either.
C19_StructurallyFrozen ==
    [][/\ Started' =>
             /\ collectors' = CollectorOrder
             /\ \A m \in AllMetrics : registry'[m.name] = m.type
       /\ Started => registry' = registry /\ collectors' = collectors
       /\ (value' # value \/ hist' # hist \/ HandlerStep) =>
             registry' = registry /\ collectors' = collectors]_vars

\* two passes and a scrape later the set and the registry are as built
C19_Witness ==
    /\ passes = 2
    /\ \E q \in InFlight : q.pc = "done" /\ q.status = 200
    /\ collectors = CollectorOrder
    /\ \A k \in Kinds : Registered(k)
    /\ value["memory_total_bytes"] = 0
    /\ value["uptime_seconds"] = 100

\* C20: a pass is not atomic towards scrapes, but outside a pass the registry
\* is still: no metric changes between two states without a pass under way,
\* and a successful response whose every read fell in one such interval
\* carries, for every metric, the value the registry holds throughout that
\* interval, which is the value the last pass left.
C20_QuietScrapeSeesLastPass ==
    [][/\ (Quiet /\ Quiet') => value' = value /\ hist' = hist
       /\ \A p \in BagToSet(req') :
             (p.pc = "done" /\ p.status = 200 /\ p.quiet) =>
                 /\ Quiet'
                 /\ p.body = value'
                 /\ p.hbody = hist']_vars

\* a response mixes passes: the cpu histogram as the second pass left it, the
\* network histogram as the first pass left it, and within the memory
\* collector the percentage of the second pass beside the byte gauges of the
\* first
C20_Witness ==
    \E q \in InFlight :
        /\ q.pc = "done" /\ q.status = 200
        /\ q.hbody["cpu_load_distribution"].count = 2
        /\ q.hbody["network_latency_seconds"].count = 1
        /\ q.body["memory_total_bytes"] = 4096
        /\ q.body["memory_used_bytes"] = 1024
        /\ q.body["memory_usage_percent"] = 100

----------------------------------------------------------------------------
\* the network gauge written with the same interface total as the counter c
NetworkGaugeOf ==
    ("network_bytes_received_total" :> "network_bytes_received")
    @@ ("network_bytes_transmitted_total" :> "network_bytes_transmitted")
    @@ ("network_packets_received_total" :> "network_packets_received")
    @@ ("network_packets_transmitted_total" :> "network_packets_transmitted")

\* the number of collect_metrics() calls of kind k in the sequence cs
CallsOf(cs, k) == Cardinality({i \in 1..Len(cs) : cs[i] = k})

\* C21: each network counter starts at 0, is increased by every
\* collect_metrics() call of the network collector by exactly the value the
\* call writes to the corresponding gauge (not by a change since the previous
\* pass), changes in no other step, and every completed pass made exactly one
\* such call: after n passes the counter is the sum of the n gauge values.
C21_CountersAddGaugeValue ==
    /\ \A c \in DOMAIN NetworkGaugeOf : value[c] = 0
    /\ [][/\ \A c \in DOMAIN NetworkGaugeOf :
                IF ReturnsFrom("network")
                THEN value'[c] = value[c] + value'[NetworkGaugeOf[c]]
                ELSE value'[c] = value[c]
          /\ \A t \in Tasks :
                (pc[t] = "sampling" /\ pc'[t] = "sleeping") =>
                    CallsOf(calls[t], "network") = 1]_vars

\* two passes are complete; the first found one interface (3 bytes received),
\* the second two (6 bytes): the gauge holds 6 and the counter 3 + 6
C21_Witness ==
    /\ pc["scheduler"] = "sleeping"
    /\ passes = 2
    /\ sampler["network"] = <<BusyIface, BusyIface>>
    /\ value["network_bytes_received"] = 6
    /\ value["network_bytes_received_total"] = 9
    /\ value["network_packets_transmitted"] = 2
    /\ value["network_packets_transmitted_total"] = 3

\* the disk gauges agree with each other: used + available = total, and no
\* more inodes in use than there are
DiskConsistent(val) ==
    /\ val["disk_used_bytes"] + val["disk_available_bytes"]
          = val["disk_total_bytes"]
    /\ val["disk_inodes_used"] <= val["disk_inodes_total"]

\* C22: whenever the scheduler is Sleeping after at least one completed pass,
\* disk_used_bytes + disk_available_bytes = disk_total_bytes and
\* disk_inodes_used <= disk_inodes_total, for a disk that was found and for
\* the fallback constants.
C22_DiskGaugesConsistent ==
    (pc["scheduler"] = "sleeping" /\ passes >= 1) => DiskConsistent(value)

\* the collectors that own a histogram
Observers == {k \in Kinds : NamesOf(k) \cap HistNames # {}}

\* C23: every collect_metrics() call of the cpu, disk and network collector
\* that returns records exactly one histogram observation and no other step
\* records one, so whenever the scheduler is Sleeping after n completed passes
\* the _count of cpu_load_distribution, disk_operation_duration_seconds and
\* network_latency_seconds all equal n.
C23_OneObservationPerPass ==
    /\ [](pc["scheduler"] = "sleeping" =>
             \A n \in HistNames : hist[n].count = passes)
    /\ [][\A k \in Observers :
             \A n \in NamesOf(k) \cap HistNames :
                 hist'[n].count =
                     hist[n].count + (IF ReturnsFrom(k) THEN 1 ELSE 0)]_vars

\* the scheduler sleeps after two passes, the second of which found no disk
\* and wrote the fallback constants: each of the three histograms has counted
\* two observations
C23_Witness ==
    /\ pc["scheduler"] = "sleeping"
    /\ passes = 2
    /\ sampler["disk"] = <<>>
    /\ Observers = {"cpu", "disk", "network"}
    /\ \A n \in HistNames : hist[n].count = 2

====
